---------------------------- MODULE Spec2Model ----------------------------
(***************************************************************************)
(* Draft normalisation and shaping pipeline of the LinkedIn SaaS backend   *)
(* (app/routers/thoughtpost.py, app/routers/linkedin_publish.py).          *)
(*                                                                         *)
(* A Python str is modelled as a sequence of Unicode code points (Nat).    *)
(* An Optional[str] whose every use in the source is `x or ...` is         *)
(* modelled by the string itself, None being the empty string.             *)
(***************************************************************************)
EXTENDS Integers, Sequences, FiniteSets, TLC

(***************************************************************************)
(* Character classes of Python's str / re (Unicode patterns).              *)
(***************************************************************************)

\* str.isspace(), which is also re's \s on str patterns and what
\* str.strip() / str.split() with no argument remove.
IsSpace(c) ==
    \/ c \in {9, 10, 11, 12, 13, 28, 29, 30, 31, 32, 133, 160}
    \/ c \in {5760, 8232, 8233, 8239, 8287, 12288}
    \/ (c >= 8192 /\ c <= 8202)

IsAsciiDigit(c) == c >= 48 /\ c <= 57

IsAsciiLetter(c) == (c >= 65 /\ c <= 90) \/ (c >= 97 /\ c <= 122)

IsHexDigit(c) ==
    IsAsciiDigit(c) \/ (c >= 65 /\ c <= 70) \/ (c >= 97 /\ c <= 102)

HexValue(c) ==
    IF IsAsciiDigit(c) THEN c - 48
    ELSE IF c >= 97 THEN c - 87 ELSE c - 55

(***************************************************************************)
(* Generic str operations.                                                 *)
(***************************************************************************)

Drop(s, n) == SubSeq(s, n + 1, Len(s))

Take(s, n) == SubSeq(s, 1, n)

\* s.startswith(p)
StartsWith(s, p) == Len(p) <= Len(s) /\ SubSeq(s, 1, Len(p)) = p

\* s[i-1:].startswith(p), i being 1-based
MatchAt(s, i, p) ==
    i + Len(p) - 1 <= Len(s) /\ SubSeq(s, i, i + Len(p) - 1) = p

\* p in s
Contains(s, p) == \E i \in 1..(Len(s) + 1) : MatchAt(s, i, p)

\* the least element of a non-empty set of positions
FirstOf(I) == CHOOSE i \in I : \A j \in I : i <= j

\* number of leading non-whitespace characters of s (re: \S*)
NonSpaceSpan(s) ==
    LET stop == {i \in 1..Len(s) : IsSpace(s[i])}
    IN  IF stop = {} THEN Len(s) ELSE FirstOf(stop) - 1

\* number of leading whitespace characters of s (re: \s*)
RECURSIVE SpaceRun(_, _)
SpaceRun(s, i) == IF i <= Len(s) /\ IsSpace(s[i]) THEN 1 + SpaceRun(s, i + 1) ELSE 0

SpaceSpan(s) == SpaceRun(s, 1)

\* the greatest element of a non-empty set of positions
LastOf(I) == CHOOSE i \in I : \A j \in I : j <= i

\* s.lstrip()
LStrip(s) == Drop(s, SpaceSpan(s))

\* s.rstrip()
RStrip(s) ==
    LET keep == {i \in 1..Len(s) : ~IsSpace(s[i])}
    IN  IF keep = {} THEN <<>> ELSE Take(s, LastOf(keep))

\* s.strip()
Strip(s) == RStrip(LStrip(s))

\* s.replace(old, new), old non-empty: leftmost non-overlapping occurrences
RECURSIVE Replace(_, _, _)
Replace(s, old, new) ==
    LET hits == {i \in 1..Len(s) : MatchAt(s, i, old)}
    IN  IF hits = {} THEN s
        ELSE Take(s, FirstOf(hits) - 1) \o new
                \o Replace(Drop(s, FirstOf(hits) - 1 + Len(old)), old, new)

\* s.split(sep) for a one-character sep: always at least one field
RECURSIVE SplitOn(_, _)
SplitOn(s, sep) ==
    LET at == {i \in 1..Len(s) : s[i] = sep}
    IN  IF at = {} THEN <<s>>
        ELSE <<Take(s, FirstOf(at) - 1)>> \o SplitOn(Drop(s, FirstOf(at)), sep)

\* sep.join(parts) for a one-character sep
RECURSIVE Join(_, _)
Join(parts, sep) ==
    IF parts = <<>> THEN <<>>
    ELSE IF Len(parts) = 1 THEN parts[1]
    ELSE parts[1] \o <<sep>> \o Join(Tail(parts), sep)

\* s.split(): the maximal runs of non-whitespace characters
RECURSIVE Words(_)
Words(s) ==
    LET t == LStrip(s)
        n == NonSpaceSpan(t)
    IN  IF t = <<>> THEN <<>> ELSE <<Take(t, n)>> \o Words(Drop(t, n))

\* len(s.split()): one word starts at every non-whitespace character
\* that is first or follows a whitespace character
WordCount(s) ==
    Cardinality({i \in 1..Len(s) : ~IsSpace(s[i]) /\ (i = 1 \/ IsSpace(s[i - 1]))})

(***************************************************************************)
(* html.unescape (CPython Lib/html/__init__.py), called at                  *)
(* thoughtpost.py:241 and :452.  The named-reference table is the part of   *)
(* html.entities.html5 that the modelled inputs can spell.                  *)
(***************************************************************************)

Html5Names ==
    { <<97, 109, 112>>, <<97, 109, 112, 59>>,            \* amp  amp;
      <<108, 116>>, <<108, 116, 59>>,                    \* lt   lt;
      <<103, 116>>, <<103, 116, 59>>,                    \* gt   gt;
      <<113, 117, 111, 116>>, <<113, 117, 111, 116, 59>>,\* quot quot;
      <<110, 98, 115, 112>>, <<110, 98, 115, 112, 59>> } \* nbsp nbsp;

Html5Value(name) ==
    CASE name[1] = 97  -> <<38>>      \* &
      [] name[1] = 108 -> <<60>>      \* <
      [] name[1] = 103 -> <<62>>      \* >
      [] name[1] = 113 -> <<34>>      \* "
      [] OTHER         -> <<160>>     \* U+00A0

\* html._invalid_charrefs
InvalidCharrefs ==
    [n \in {0, 13} \cup (128..159) |->
        CASE n = 0   -> 65533 [] n = 13  -> 13
          [] n = 128 -> 8364  [] n = 129 -> 129  [] n = 130 -> 8218
          [] n = 131 -> 402   [] n = 132 -> 8222 [] n = 133 -> 8230
          [] n = 134 -> 8224  [] n = 135 -> 8225 [] n = 136 -> 710
          [] n = 137 -> 8240  [] n = 138 -> 352  [] n = 139 -> 8249
          [] n = 140 -> 338   [] n = 141 -> 141  [] n = 142 -> 381
          [] n = 143 -> 143   [] n = 144 -> 144  [] n = 145 -> 8216
          [] n = 146 -> 8217  [] n = 147 -> 8220 [] n = 148 -> 8221
          [] n = 149 -> 8226  [] n = 150 -> 8211 [] n = 151 -> 8212
          [] n = 152 -> 732   [] n = 153 -> 8482 [] n = 154 -> 353
          [] n = 155 -> 8250  [] n = 156 -> 339  [] n = 157 -> 157
          [] n = 158 -> 382   [] OTHER   -> 376]

\* html._invalid_codepoints
IsInvalidCodepoint(n) ==
    \/ (n >= 1 /\ n <= 8) \/ n = 11 \/ (n >= 14 /\ n <= 31)
    \/ (n >= 127 /\ n <= 159) \/ (n >= 64976 /\ n <= 65007)
    \/ (n >= 65534 /\ n % 65536 >= 65534)

\* int(digits, base), saturated just above the largest code point
RECURSIVE ParseInt(_, _, _)
ParseInt(digits, base, acc) ==
    IF digits = <<>> THEN acc
    ELSE LET v == acc * base + HexValue(digits[1])
         IN  ParseInt(Tail(digits), base, IF v > 1114112 THEN 1114112 ELSE v)

\* _replace_charref, numeric branch
NumericCharref(num) ==
    IF num \in DOMAIN InvalidCharrefs THEN <<InvalidCharrefs[num]>>
    ELSE IF (num >= 55296 /\ num <= 57343) \/ num > 1114111 THEN <<65533>>
    ELSE IF IsInvalidCodepoint(num) THEN <<>>
    ELSE <<num>>

\* _replace_charref, named branch: exact name, else the longest prefix of
\* length >= 2 that is a name, else the text unchanged
NamedCharref(g) ==
    IF g \in Html5Names THEN Html5Value(g)
    ELSE LET pre == {x \in 2..(Len(g) - 1) : Take(g, x) \in Html5Names}
         IN  IF pre = {} THEN <<38>> \o g
             ELSE LET x == CHOOSE y \in pre : \A z \in pre : z <= y
                  IN  Html5Value(Take(g, x)) \o Drop(g, x)

IsNameChar(c) == c \notin {9, 10, 12, 32, 60, 38, 35, 59}

\* length of the leading run of s, capped at cap, whose characters are in
\* the class: 1 digits, 2 hex digits, 3 name characters
ClassSpan(s, class, cap) ==
    LET stop == {i \in 1..Len(s) :
                    ~(CASE class = 1 -> IsAsciiDigit(s[i])
                        [] class = 2 -> IsHexDigit(s[i])
                        [] OTHER     -> IsNameChar(s[i]))}
        n == IF stop = {} THEN Len(s) ELSE FirstOf(stop) - 1
    IN  IF n > cap THEN cap ELSE n

\* one optional ';' after the first n characters of s
Semi(s, n) == IF n < Len(s) /\ s[n + 1] = 59 THEN 1 ELSE 0

\* _charref.sub(_replace_charref, s):
\*   &(#[0-9]+;?|#[xX][0-9a-fA-F]+;?|[^\t\n\f <&#;]{1,32};?)
RECURSIVE CharrefSub(_)
CharrefSub(s) ==
    IF s = <<>> THEN <<>>
    ELSE IF s[1] # 38
    THEN LET amps == {i \in 1..Len(s) : s[i] = 38}
             n    == IF amps = {} THEN Len(s) ELSE FirstOf(amps) - 1
         IN  Take(s, n) \o CharrefSub(Drop(s, n))
    ELSE LET r    == Tail(s)
             r1   == Tail(r)
             r2   == Tail(r1)
             nd   == IF r # <<>> /\ r[1] = 35 THEN ClassSpan(r1, 1, Len(r1)) ELSE 0
             nx   == IF Len(r) >= 2 /\ r[1] = 35 /\ r[2] \in {120, 88}
                     THEN ClassSpan(r2, 2, Len(r2)) ELSE 0
             nn   == ClassSpan(r, 3, 32)
         IN  IF nd > 0
             THEN NumericCharref(ParseInt(Take(r1, nd), 10, 0))
                    \o CharrefSub(Drop(r1, nd + Semi(r1, nd)))
             ELSE IF nx > 0
             THEN NumericCharref(ParseInt(Take(r2, nx), 16, 0))
                    \o CharrefSub(Drop(r2, nx + Semi(r2, nx)))
             ELSE IF nn > 0
             THEN NamedCharref(Take(r, nn + Semi(r, nn)))
                    \o CharrefSub(Drop(r, nn + Semi(r, nn)))
             ELSE <<38>> \o CharrefSub(r)

\* html.unescape(s)
HtmlUnescape(s) == IF 38 \notin {s[i] : i \in 1..Len(s)} THEN s ELSE CharrefSub(s)

(***************************************************************************)
(* 4.1 Encoding repair: thoughtpost.py:40-56, linkedin_publish.py:55-70.    *)
(***************************************************************************)

\* s.encode("latin1", errors="ignore"): code points above U+00FF are dropped
Latin1EncodeIgnore(s) == SelectSeq(s, LAMBDA c : c <= 255)

IsCont(b) == b >= 128 /\ b <= 191

\* bytes.decode("utf-8", errors="ignore"): well-formed sequences decode
\* (no overlong forms, no surrogates, nothing above U+10FFFF), every other
\* byte is dropped
RECURSIVE Utf8DecodeIgnore(_)
Utf8DecodeIgnore(b) ==
    IF b = <<>> THEN <<>>
    ELSE LET b1 == b[1]
             n  == Len(b)
             hi == {i \in 1..n : b[i] >= 128}
             na == IF hi = {} THEN n ELSE FirstOf(hi) - 1
         IN  IF b1 < 128 THEN Take(b, na) \o Utf8DecodeIgnore(Drop(b, na))
             ELSE IF b1 >= 194 /\ b1 <= 223 /\ n >= 2 /\ IsCont(b[2])
             THEN <<(b1 - 192) * 64 + (b[2] - 128)>> \o Utf8DecodeIgnore(Drop(b, 2))
             ELSE IF /\ b1 >= 224 /\ b1 <= 239 /\ n >= 3
                     /\ IsCont(b[2]) /\ IsCont(b[3])
                     /\ (b1 = 224 => b[2] >= 160)
                     /\ (b1 = 237 => b[2] <= 159)
             THEN <<(b1 - 224) * 4096 + (b[2] - 128) * 64 + (b[3] - 128)>>
                    \o Utf8DecodeIgnore(Drop(b, 3))
             ELSE IF /\ b1 >= 240 /\ b1 <= 244 /\ n >= 4
                     /\ IsCont(b[2]) /\ IsCont(b[3]) /\ IsCont(b[4])
                     /\ (b1 = 240 => b[2] >= 144)
                     /\ (b1 = 244 => b[2] <= 143)
             THEN <<(b1 - 240) * 262144 + (b[2] - 128) * 4096
                        + (b[3] - 128) * 64 + (b[4] - 128)>>
                    \o Utf8DecodeIgnore(Drop(b, 4))
             ELSE Utf8DecodeIgnore(Tail(b))

\* one pass of the loop body: s.encode("latin1", "ignore").decode("utf-8", "ignore")
RoundtripPass(s) == Utf8DecodeIgnore(Latin1EncodeIgnore(s))

\* _fix_mojibake_roundtrip: at most two passes, stopping at an empty or
\* unchanged result
_fix_mojibake_roundtrip(s) ==
    IF s = <<>> THEN s
    ELSE LET s2 == RoundtripPass(s)
         IN  IF s2 = <<>> \/ s2 = s THEN s
             ELSE LET s3 == RoundtripPass(s2)
                  IN  IF s3 = <<>> \/ s3 = s2 THEN s2 ELSE s3

\* re.search: [U+0080-U+009F] | [U+00C2 U+00E2][U+0080-U+00BF] | U+00F0[U+0080-U+00BF]
DetectsMojibake(t) ==
    \E i \in 1..Len(t) :
        \/ (t[i] >= 128 /\ t[i] <= 159)
        \/ /\ t[i] \in {194, 226, 240}
           /\ i < Len(t)
           /\ IsCont(t[i + 1])

(***************************************************************************)
(* 4.2 Structural normaliser: _strip_mojibake (thoughtpost.py:221-260) and  *)
(* _cleanup (thoughtpost.py:362-366).                                       *)
(***************************************************************************)

\* re.sub(r"[\x00-\x08\x0B\x0C\x0E-\x1F\x7F]", "", t)
StripControls(t) ==
    SelectSeq(t, LAMBDA c : ~(c <= 8 \/ c = 11 \/ c = 12 \/ (c >= 14 /\ c <= 31) \/ c = 127))

\* length of the match of \s*\.\s*\.\s*\.?\s* at the start of s, 0 if none
EllipsisMatchLen(s) ==
    LET a  == SpaceSpan(s)
        s1 == Drop(s, a)
        b  == SpaceSpan(Tail(s1))
        s2 == Drop(s1, 1 + b)
        c  == SpaceSpan(Tail(s2))
        s3 == Drop(s2, 1 + c)
        d  == IF s3 # <<>> /\ s3[1] = 46 THEN 1 ELSE 0
        e  == SpaceSpan(Drop(s3, d))
    IN  IF s1 # <<>> /\ s1[1] = 46 /\ s2 # <<>> /\ s2[1] = 46
        THEN a + 1 + b + 1 + c + d + e
        ELSE 0

\* re.sub(r"\s*\.\s*\.\s*\.?\s*", ". ", t)
RECURSIVE EllipsisSub(_)
EllipsisSub(t) ==
    LET hits == {i \in 1..Len(t) : EllipsisMatchLen(Drop(t, i - 1)) > 0}
        i    == FirstOf(hits)
    IN  IF hits = {} THEN t
        ELSE Take(t, i - 1) \o <<46, 32>>
                \o EllipsisSub(Drop(t, i - 1 + EllipsisMatchLen(Drop(t, i - 1))))

\* re.sub(r"(?:\r\n|\r|\n)", "\n", t)
RECURSIVE NormalizeNewlines(_)
NormalizeNewlines(t) ==
    LET hits == {i \in 1..Len(t) : t[i] = 13}
        i    == FirstOf(hits)
    IN  IF hits = {} THEN t
        ELSE Take(t, i - 1) \o <<10>>
                \o NormalizeNewlines(Drop(t, IF MatchAt(t, i, <<13, 10>>) THEN i + 1 ELSE i))

\* the loop of lines 250-258: a blank line is kept only when it is the
\* first of its run
RECURSIVE CollapseBlank(_, _)
CollapseBlank(lines, blank) ==
    IF lines = <<>> THEN <<>>
    ELSE IF lines[1] = <<>>
    THEN (IF blank + 1 <= 1 THEN <<(<<>>)>> ELSE <<>>)
            \o CollapseBlank(Tail(lines), blank + 1)
    ELSE <<lines[1]>> \o CollapseBlank(Tail(lines), 0)

StripEach(lines) == [i \in 1..Len(lines) |-> Strip(lines[i])]

_strip_mojibake(text) ==
    IF text = <<>> THEN <<>>
    ELSE LET t1 == IF DetectsMojibake(text) THEN _fix_mojibake_roundtrip(text) ELSE text
             t2 == Replace(Replace(t1, <<194, 160>>, <<32>>), <<194, 32>>, <<32>>)
             t3 == HtmlUnescape(t2)
             t4 == StripControls(t3)
             t5 == EllipsisSub(t4)
             t6 == NormalizeNewlines(t5)
             lines == StripEach(SplitOn(t6, 10))
         IN  Strip(Join(CollapseBlank(lines, 0), 10))

\* length of the match of https?://\S+ at the start of s, 0 if none
UrlMatchLen(s) ==
    LET k == IF MatchAt(s, 1, <<104, 116, 116, 112, 115>>) THEN 5 ELSE 4
        n == NonSpaceSpan(Drop(s, k + 3))
    IN  IF /\ MatchAt(s, 1, <<104, 116, 116, 112>>)
           /\ MatchAt(s, k + 1, <<58, 47, 47>>)
           /\ n >= 1
        THEN k + 3 + n
        ELSE 0

\* re.sub(r"https?://\S+", "", t)
RECURSIVE RemoveUrls(_)
RemoveUrls(t) ==
    LET hits == {i \in 1..Len(t) : UrlMatchLen(Drop(t, i - 1)) > 0}
        i    == FirstOf(hits)
    IN  IF hits = {} THEN t
        ELSE Take(t, i - 1) \o RemoveUrls(Drop(t, i - 1 + UrlMatchLen(Drop(t, i - 1))))

\* _cleanup(out_text, req); req is not read
_cleanup(out_text, req) == Strip(RemoveUrls(_strip_mojibake(out_text)))

(***************************************************************************)
(* 4.5 Deterministic fallback generator: _first_sentence and               *)
(* _fallback_from_req (thoughtpost.py:447-479).                             *)
(***************************************************************************)

\* str.lower() on the Basic Latin and Latin-1 letters
LowerChar(c) ==
    IF (c >= 65 /\ c <= 90) \/ (c >= 192 /\ c <= 222 /\ c # 215) THEN c + 32 ELSE c

Lower(s) == [i \in 1..Len(s) |-> LowerChar(s[i])]

\* re.sub(r'\s+', ' ', s)
CollapseSpaces(s) ==
    LET idx == SelectSeq([i \in 1..Len(s) |-> i],
                         LAMBDA i : ~IsSpace(s[i]) \/ i = 1 \/ ~IsSpace(s[i - 1]))
    IN  [k \in 1..Len(idx) |-> IF IsSpace(s[idx[k]]) THEN 32 ELSE s[idx[k]]]

\* re.split(r'(?<=[.!?])\s+', s)[0]
FirstPart(s) ==
    LET cut == {i \in 1..(Len(s) - 1) : s[i] \in {46, 33, 63} /\ IsSpace(s[i + 1])}
    IN  IF cut = {} THEN s ELSE Take(s, FirstOf(cut))

\* s.rstrip(",;: ")
RStripPunct(s) ==
    LET keep == {i \in 1..Len(s) : s[i] \notin {44, 59, 58, 32}}
    IN  IF keep = {} THEN <<>> ELSE Take(s, LastOf(keep))

\* default of the parameter `limit`
FirstSentenceLimit == 240

_first_sentence(s, limit) ==
    IF s = <<>> THEN <<>>
    ELSE LET s1   == RemoveUrls(s)
             s2   == HtmlUnescape(s1)
             s3   == Strip(CollapseSpaces(s2))
             head == Strip(FirstPart(s3))
         IN  IF Len(head) > limit
             THEN RStripPunct(Take(head, limit - 1)) \o <<8230>>
             ELSE head

\* "Quick update"
QuickUpdate == <<81, 117, 105, 99, 107, 32, 117, 112, 100, 97, 116, 101>>

\* line 473
BulletWhatChanged ==
    <<8226, 32, 9989, 32, 87, 104, 97, 116, 32, 99, 104, 97, 110, 103, 101,
      100, 58, 32, 83, 117, 109, 109, 97, 114, 105, 122, 101, 32, 116, 104,
      101, 32, 105, 109, 112, 97, 99, 116, 32, 97, 110, 100, 32, 115, 99,
      111, 112, 101, 32, 115, 111, 32, 112, 114, 105, 111, 114, 105, 116,
      105, 101, 115, 32, 100, 111, 110, 8217, 116, 32, 100, 114, 105, 102,
      116, 46>>

\* line 474
BulletImpact ==
    <<8226, 32, 73, 109, 112, 97, 99, 116, 58, 32, 67, 108, 97, 114, 105,
      102, 121, 32, 119, 104, 111, 8217, 115, 32, 97, 102, 102, 101, 99,
      116, 101, 100, 32, 97, 110, 100, 32, 119, 104, 105, 99, 104, 32, 75,
      80, 73, 115, 32, 111, 114, 32, 100, 101, 97, 100, 108, 105, 110, 101,
      115, 32, 109, 111, 118, 101, 46>>

\* line 475
BulletNextStep ==
    <<8226, 32, 78, 101, 120, 116, 32, 115, 116, 101, 112, 58, 32, 87, 114,
      105, 116, 101, 32, 116, 104, 101, 32, 116, 114, 97, 100, 101, 111,
      102, 102, 115, 32, 40, 116, 105, 109, 101, 108, 105, 110, 101, 44,
      32, 114, 101, 115, 111, 117, 114, 99, 101, 115, 44, 32, 114, 105,
      115, 107, 41, 32, 97, 110, 100, 32, 115, 104, 97, 114, 101, 32, 116,
      104, 101, 32, 100, 101, 99, 105, 115, 105, 111, 110, 32, 105, 110,
      32, 111, 110, 101, 32, 112, 108, 97, 99, 101, 46>>

\* line 477, ending in U+1F914
ClosingQuestion ==
    <<87, 104, 97, 116, 8217, 115, 32, 116, 104, 101, 32, 102, 105, 114,
      115, 116, 32, 116, 114, 97, 100, 101, 111, 102, 102, 32, 121, 111,
      117, 8217, 108, 108, 32, 109, 97, 107, 101, 32, 116, 111, 32, 107,
      101, 101, 112, 32, 102, 111, 99, 117, 115, 63, 32, 129300>>

\* Headline without the prefix test of line 465: the title is put before
\* a sentence that already starts with it
Headline_NoPrefixCheck(r) ==
    LET title   == Strip(r.source_title)
        summary == Strip(r.text)
        fs      == _first_sentence(summary, FirstSentenceLimit)
        head    == IF fs # <<>> THEN fs
                   ELSE IF title # <<>> THEN title ELSE QuickUpdate
    IN  IF title # <<>> /\ head # <<>>
        THEN title \o <<58, 32>> \o head
        ELSE IF head # <<>> THEN head
        ELSE IF title # <<>> THEN title ELSE QuickUpdate

Headline(r) ==
    LET title   == Strip(r.source_title)
        summary == Strip(r.text)
        fs      == _first_sentence(summary, FirstSentenceLimit)
        head    == IF fs # <<>> THEN fs
                   ELSE IF title # <<>> THEN title ELSE QuickUpdate
    IN  IF title # <<>> /\ head # <<>> /\ ~StartsWith(Lower(head), Lower(title))
        THEN title \o <<58, 32>> \o head
        ELSE IF head # <<>> THEN head
        ELSE IF title # <<>> THEN title ELSE QuickUpdate

_fallback_from_req(r) ==
    Strip(Join(<<Headline(r), <<>>, BulletWhatChanged, BulletImpact,
                 BulletNextStep, <<>>, ClosingQuestion>>, 10))

(***************************************************************************)
(* 4.3 Tag selector: _choose_tags (thoughtpost.py:262-297).                 *)
(* A tag list is a sequence of strings.                                     *)
(***************************************************************************)

\* seq[:n]
FirstN(seq, n) == SubSeq(seq, 1, IF n < Len(seq) THEN n ELSE Len(seq))

\* regex \w on the code points up to U+00FF: letters, digits (superscripts
\* and fractions included) and the underscore; the characters above U+00FF
\* that the inputs hold are punctuation and symbols, which are not \w
IsWordChar(c) ==
    \/ IsAsciiLetter(c) \/ IsAsciiDigit(c) \/ c = 95
    \/ c \in {170, 178, 179, 181, 185, 186, 188, 189, 190}
    \/ (c >= 192 /\ c <= 255 /\ c # 215 /\ c # 247)

\* re.search(r"\b(w1|w2|...)\b", raw): some alternative occurs with no word
\* character right before it and none right after it
WordSearch(raw, alternatives) ==
    \E w \in alternatives : \E i \in 1..Len(raw) :
        /\ MatchAt(raw, i, w)
        /\ i = 1 \/ ~IsWordChar(raw[i - 1])
        /\ i + Len(w) > Len(raw) \/ ~IsWordChar(raw[i + Len(w)])

\* line 276: ai|model|genai|llm|copilot
AiWords ==
    { <<97, 105>>,
      <<109, 111, 100, 101, 108>>,
      <<103, 101, 110, 97, 105>>,
      <<108, 108, 109>>,
      <<99, 111, 112, 105, 108, 111, 116>> }

\* line 277: supply chain|logistics|manufacturing
SupplyWords ==
    { <<115, 117, 112, 112, 108, 121, 32, 99, 104, 97, 105, 110>>,
      <<108, 111, 103, 105, 115, 116, 105, 99, 115>>,
      <<109, 97, 110, 117, 102, 97, 99, 116, 117, 114, 105, 110, 103>> }

\* line 278: finance|loan|equity|valuation|funding
FinanceWords ==
    { <<102, 105, 110, 97, 110, 99, 101>>,
      <<108, 111, 97, 110>>,
      <<101, 113, 117, 105, 116, 121>>,
      <<118, 97, 108, 117, 97, 116, 105, 111, 110>>,
      <<102, 117, 110, 100, 105, 110, 103>> }

\* line 279: policy|regulation|administration|trade
PolicyWords ==
    { <<112, 111, 108, 105, 99, 121>>,
      <<114, 101, 103, 117, 108, 97, 116, 105, 111, 110>>,
      <<97, 100, 109, 105, 110, 105, 115, 116, 114, 97, 116, 105, 111, 110>>,
      <<116, 114, 97, 100, 101>> }

\* "#AI"
TagAI == <<35, 65, 73>>

\* "#SupplyChain"
TagSupplyChain == <<35, 83, 117, 112, 112, 108, 121, 67, 104, 97, 105, 110>>

\* "#Finance"
TagFinance == <<35, 70, 105, 110, 97, 110, 99, 101>>

\* "#Policy"
TagPolicy == <<35, 80, 111, 108, 105, 99, 121>>

\* "#Privacy"
TagPrivacy == <<35, 80, 114, 105, 118, 97, 99, 121>>

\* "#Leadership"
TagLeadership == <<35, 76, 101, 97, 100, 101, 114, 115, 104, 105, 112>>

\* the elements of seq whose lower-cased form no earlier element has, in
\* their order (the `seen` sets of lines 264-270 and 291-295)
KeepFirstSeen(seq) ==
    LET K == {i \in 1..Len(seq) : \A j \in 1..(i - 1) : Lower(seq[j]) # Lower(seq[i])}
    IN  [k \in 1..Cardinality(K) |->
            seq[CHOOSE i \in K : Cardinality({j \in K : j <= i}) = k]]

\* lines 263-270: the stripped, non-empty, first-seen explicit tags
ExplicitTags(base_tags) ==
    KeepFirstSeen(SelectSeq([i \in 1..Len(base_tags) |-> Strip(base_tags[i])],
                            LAMBDA h : h # <<>>))

\* lines 274-280: the tags of the keyword families found in the lower-cased
\* body, then the privacy tag when asked for
KeywordTags(body, add_privacy) ==
    LET raw == Lower(body)
    IN  (IF WordSearch(raw, AiWords) THEN <<TagAI>> ELSE <<>>)
        \o (IF WordSearch(raw, SupplyWords) THEN <<TagSupplyChain>> ELSE <<>>)
        \o (IF WordSearch(raw, FinanceWords) THEN <<TagFinance>> ELSE <<>>)
        \o (IF WordSearch(raw, PolicyWords) THEN <<TagPolicy>> ELSE <<>>)
        \o (IF add_privacy THEN <<TagPrivacy>> ELSE <<>>)

\* lines 282-288: angle_defaults, a table from angle key to two tags
AngleKeys ==
    << <<99, 97, 114, 101, 101, 114>>,
       <<108, 101, 97, 100, 101, 114, 115, 104, 105, 112>>,
       <<109, 97, 114, 107, 101, 116>>,
       <<104, 105, 114, 105, 110, 103>>,
       <<111, 112, 115>> >>

AngleTags ==
    << <<<<35, 67, 97, 114, 101, 101, 114, 71, 114, 111, 119, 116, 104>>, <<35, 85, 112, 115, 107, 105, 108, 108, 105, 110, 103>>>>,
       <<<<35, 76, 101, 97, 100, 101, 114, 115, 104, 105, 112>>, <<35, 69, 120, 101, 99, 117, 116, 105, 111, 110>>>>,
       <<<<35, 77, 97, 114, 107, 101, 116, 84, 114, 101, 110, 100, 115>>, <<35, 83, 116, 114, 97, 116, 101, 103, 121>>>>,
       <<<<35, 72, 105, 114, 105, 110, 103>>, <<35, 84, 101, 97, 109, 66, 117, 105, 108, 100, 105, 110, 103>>>>,
       <<<<35, 79, 112, 101, 114, 97, 116, 105, 111, 110, 115>>, <<35, 82, 101, 108, 105, 97, 98, 105, 108, 105, 116, 121>>>> >>

\* angle_defaults.get(angle_key, ["#Leadership"])
AngleDefault(angle_key) ==
    IF \E i \in 1..Len(AngleKeys) : AngleKeys[i] = angle_key
    THEN AngleTags[CHOOSE i \in 1..Len(AngleKeys) : AngleKeys[i] = angle_key]
    ELSE <<TagLeadership>>

\* line 289: topics[:3] or want or the angle's default
Picks(body, topics, angle_key, add_privacy) ==
    IF FirstN(topics, 3) # <<>> THEN FirstN(topics, 3)
    ELSE IF KeywordTags(body, add_privacy) # <<>> THEN KeywordTags(body, add_privacy)
    ELSE AngleDefault(angle_key)

_choose_tags(body, topics, angle_key, base_tags, add_privacy) ==
    IF ExplicitTags(base_tags) # <<>>
    THEN FirstN(ExplicitTags(base_tags), 3)
    ELSE FirstN(KeepFirstSeen(Picks(body, topics, angle_key, add_privacy)), 3)

(***************************************************************************)
(* 4.4 Shape enforcer: _enforce_shape (thoughtpost.py:299-360).             *)
(*                                                                         *)
(* A call's outcome is a record: raised = FALSE and the returned value, or  *)
(* raised = TRUE and the exception's class.                                 *)
(***************************************************************************)

Returned(v) == [raised |-> FALSE, exc |-> "", value |-> v]

Raised(e) == [raised |-> TRUE, exc |-> e, value |-> <<>>]

\* The names the function binds before line 316 executes: its six
\* parameters and the locals assigned on lines 304-313.  `body` is assigned
\* only on lines 318, 336, 347, 352, 357 and 358, and `tags` nowhere, yet
\* both are local or global names read later.
BoundAtLine316 ==
    {"t", "max_words", "angle", "topics", "source_title", "terms",
     "low", "subj", "raw_ctx", "is_voice", "is_priv", "voice_priv"}

\* Lines 301-313 read only parameters and bind locals; none of them raises
\* or returns.  Line 316 evaluates re.split(..., body, maxsplit=1): `body`
\* is a local of the function (it is assigned on line 318), so reading it
\* unbound raises UnboundLocalError, and nothing in the function catches it.
\* The only return statement is on line 360, after line 354 has read
\* `tags`, a name that neither the function nor the module binds.
_enforce_shape(t, max_words, angle, topics, source_title, terms) ==
    IF "body" \notin BoundAtLine316
    THEN Raised("UnboundLocalError")
    ELSE Raised("NameError")

(***************************************************************************)
(* linkedin_publish.py: the publisher's own detector and cleaner.           *)
(***************************************************************************)

\* _looks_like_mojibake, the second definition (lines 73-86), which
\* replaces the first (lines 47-53) when the module is loaded
_looks_like_mojibake(s) ==
    /\ s # <<>>
    /\ \/ \E i \in 1..Len(s) : s[i] >= 128 /\ s[i] <= 159
       \/ Contains(s, <<194, 32>>)
       \/ Contains(s, <<226, 128>>)
       \/ Contains(s, <<226, 339>>)
       \/ Contains(s, <<240, 376>>)

RStripEach(lines) == [i \in 1..Len(lines) |-> RStrip(lines[i])]

\* _final_text_clean (lines 88-125): one round-trip pass when mojibake is
\* detected, URL removal, newline normalisation, per-line rstrip, blank-run
\* collapse, strip
_final_text_clean(raw_text) ==
    IF raw_text = <<>> THEN <<>>
    ELSE LET t1 == IF _looks_like_mojibake(raw_text) THEN RoundtripPass(raw_text)
                   ELSE raw_text
             t2 == RemoveUrls(t1)
             t3 == Replace(Replace(t2, <<13, 10>>, <<10>>), <<13>>, <<10>>)
             lines == RStripEach(SplitOn(t3, 10))
         IN  Strip(Join(CollapseBlank(lines, 0), 10))

(***************************************************************************)
(* services/rewrite.py: _light_cleanup (23-32) and rewrite_linkedin (35-70).*)
(***************************************************************************)

\* re.sub(r"\n{3,}", "\n\n", t): a line feed stays unless two stand right
\* before it
CapNewlines(t) ==
    LET idx == SelectSeq([i \in 1..Len(t) |-> i],
                         LAMBDA i : ~(t[i] = 10 /\ i > 2 /\ t[i - 1] = 10 /\ t[i - 2] = 10))
    IN  [k \in 1..Len(idx) |-> t[idx[k]]]

_light_cleanup(s) ==
    IF s = <<>> THEN <<>>
    ELSE Strip(RemoveUrls(CapNewlines(NormalizeNewlines(HtmlUnescape(s)))))

\* lines 41-43: base = (text or "").strip()
RewriteBase(text) == Strip(text)

\* line 67: _light_cleanup(out) or _light_cleanup(base), out being the
\* stripped message content (line 66)
RewriteResult(content, base) ==
    IF _light_cleanup(Strip(content)) # <<>>
    THEN _light_cleanup(Strip(content))
    ELSE _light_cleanup(base)

(***************************************************************************)
(* Inputs.                                                                  *)
(***************************************************************************)

\* longest string enumerated exhaustively over TextAlphabet
MaxLen == 3

\* number of entries of REWRITER_MODELS (thoughtpost.py:20-24): three by
\* default, any number when REWRITER_MODEL is set in the environment
NumModels == 3

\* bounds of ThoughtPostRequest.max_words (thoughtpost.py:32)
MaxWordsMin == 80

MaxWordsMax == 300

\* 'a', ' ', '.', LF, U+00E2
TextAlphabet == {97, 32, 46, 10, 226}

SmallStrings == UNION {[1..n -> TextAlphabet] : n \in 0..MaxLen}

\* a plain sentence
OutPlain ==
    <<84, 101, 97, 109, 115, 32, 115, 104, 105, 112, 32, 102, 97, 115, 116,
      101, 114, 46>>

\* whitespace only
OutBlank ==
    <<32, 10, 32>>

\* nothing but a link
OutUrlOnly ==
    <<104, 116, 116, 112, 58, 47, 47, 120, 46, 105, 111, 47, 97>>

\* a link inside text
OutWithUrl ==
    <<82, 101, 97, 100, 32, 104, 116, 116, 112, 115, 58, 47, 47, 120, 46,
      105, 111, 32, 110, 111, 119>>

\* a link with another scheme
OutFtpUrl ==
    <<83, 101, 101, 32, 102, 116, 112, 58, 47, 47, 120, 46, 105, 111, 47,
      97>>

\* scenario B of the spec: U+00E2 U+20AC U+2122 for the apostrophe
OutScenarioB ==
    <<84, 104, 105, 115, 226, 8364, 8482, 115, 32, 103, 114, 101, 97, 116,
      32, 110, 101, 119, 115, 46, 32, 104, 97, 115, 104, 116, 97, 103, 35,
      65, 73, 32, 104, 97, 115, 104, 116, 97, 103, 35, 80, 111, 108, 105,
      99, 121>>

\* the same apostrophe mis-decoded as Latin-1: U+00E2 U+0080 U+0099
OutLatin1Quote ==
    <<84, 104, 105, 115, 226, 128, 153, 115, 32, 103, 114, 101, 97, 116>>

\* four full stops
OutEllipsis ==
    <<87, 97, 105, 116, 46, 46, 46, 46>>

\* a link alone on a line between blank lines
OutUrlParagraph ==
    <<97, 10, 10, 104, 116, 116, 112, 58, 47, 47, 120, 46, 105, 111, 10,
      10, 98>>

\* a doubly escaped ampersand
OutEntity ==
    <<82, 38, 97, 109, 112, 59, 97, 109, 112, 59, 68>>

\* a bullet, U+2022, and a word
OutBullet ==
    <<8226, 32, 97>>

\* an output that already has the shape
OutShaped ==
    <<66, 111, 116, 116, 111, 109, 32, 108, 105, 110, 101, 58, 32, 115,
      104, 105, 112, 32, 105, 116, 46, 32, 82, 101, 97, 100, 121, 63, 10,
      10, 35, 65, 73, 32, 35, 80, 111, 108, 105, 99, 121>>

\* MaxWordsMax + 1 one-letter words
OutLong == [i \in 1..(2 * MaxWordsMax + 1) |-> IF i % 2 = 1 THEN 97 ELSE 32]

OutputSamples ==
    { <<>>, OutPlain, OutBlank, OutUrlOnly, OutWithUrl, OutFtpUrl,
      OutScenarioB, OutLatin1Quote, OutEllipsis, OutUrlParagraph,
      OutEntity, OutBullet, OutShaped, OutLong }

\* what a provider's response may carry as its text
ModelOutputs == OutputSamples

\* "A vendor changes partners."
TextVendor ==
    <<65, 32, 118, 101, 110, 100, 111, 114, 32, 99, 104, 97, 110, 103, 101,
      115, 32, 112, 97, 114, 116, 110, 101, 114, 115, 46>>

\* "Vendor News"
TitleVendor ==
    <<86, 101, 110, 100, 111, 114, 32, 78, 101, 119, 115>>

\* requests that passed validation: text of at least one character (the
\* one-space text is valid), max_words within its bounds
Requests ==
    [text : {TextVendor, <<32>>, <<97>>},
     source_title : {<<>>, TitleVendor},
     max_words : {MaxWordsMin, MaxWordsMax}]

(***************************************************************************)
(* State.                                                                   *)
(***************************************************************************)

VARIABLES
    req,            \* generate_thoughtpost: the request
    pc,             \* generate_thoughtpost: the step about to run
    raw,            \* generate_thoughtpost: local `raw`
    hf_i,           \* _hf_generate: 1-based index of the next model of the loop
    last_err,       \* _hf_generate: 0 for None, else the model that raised last
    hf_outcome,     \* how _hf_generate ended: "none", "text", "empty", "raised"
    calls,          \* provider calls so far: m = 0 for OpenAI, else the model; out
                    \* = "text", "empty" or "raised"
    cleaned,        \* generate_thoughtpost: local `cleaned` after line 503
    used_fallback,  \* whether _fallback_from_req produced the draft
    response,       \* what the caller got: [kind, draft]
    h_fn,           \* function harness: the function applied
    h_arg,          \* function harness: its argument
    h_ret           \* function harness: the results of successive applications

orchVars ==
    <<req, pc, raw, hf_i, last_err, hf_outcome, calls, cleaned, used_fallback, response>>

harnessVars == <<h_fn, h_arg, h_ret>>

vars ==
    <<req, pc, raw, hf_i, last_err, hf_outcome, calls, cleaned, used_fallback,
      response, h_fn, h_arg, h_ret>>

NoRequest == [text |-> <<>>, source_title |-> <<>>, max_words |-> 0]

NoResponse == [kind |-> "none", draft |-> <<>>]

OrchIdle ==
    /\ req = NoRequest /\ pc = "idle" /\ raw = <<>> /\ hf_i = 0
    /\ last_err = 0 /\ hf_outcome = "none" /\ calls = <<>>
    /\ cleaned = <<>> /\ used_fallback = FALSE /\ response = NoResponse

HarnessIdle == h_fn = "idle" /\ h_arg = <<>> /\ h_ret = <<>>

(***************************************************************************)
(* 4.6 Orchestrator: generate_thoughtpost (thoughtpost.py:443-512) with     *)
(* _call_openai (159-169) and _hf_generate (205-217) as its providers.      *)
(* A provider either returns text or raises an Exception.                   *)
(***************************************************************************)

Init ==
    /\ req \in Requests
    /\ pc = "PRIMARY_ATTEMPT"
    /\ raw = <<>>
    /\ hf_i = 0
    /\ last_err = 0
    /\ hf_outcome = "none"
    /\ calls = <<>>
    /\ cleaned = <<>>
    /\ used_fallback = FALSE
    /\ response = NoResponse
    /\ HarnessIdle

\* how a call that returned ended: its stripped text is empty or not (lines
\* 169, 210, 505)
Outcome(content) == IF Strip(content) = <<>> THEN "empty" ELSE "text"

\* CallOpenAIReturns with an empty answer treated like a failure: the
\* alternates are tried
CallOpenAIReturns_TriesAlternates(content) ==
    /\ pc = "PRIMARY_ATTEMPT"
    /\ calls' = Append(calls, [m |-> 0, out |-> Outcome(content)])
    /\ IF Strip(content) = <<>>
       THEN /\ hf_i' = 1
            /\ pc' = "ALTERNATES"
            /\ UNCHANGED raw
       ELSE /\ raw' = Strip(content)
            /\ pc' = "CLEANUP"
            /\ UNCHANGED hf_i
    /\ UNCHANGED <<req, last_err, hf_outcome, cleaned, used_fallback, response>>
    /\ UNCHANGED harnessVars

\* lines 491-493: _call_openai returns the stripped message content
CallOpenAIReturns(content) ==
    /\ pc = "PRIMARY_ATTEMPT"
    /\ raw' = Strip(content)
    /\ calls' = Append(calls, [m |-> 0, out |-> Outcome(content)])
    /\ pc' = "CLEANUP"
    /\ UNCHANGED <<req, hf_i, last_err, hf_outcome, cleaned, used_fallback, response>>
    /\ UNCHANGED harnessVars

\* lines 494-497: _call_openai raises; the handler enters _hf_generate
CallOpenAIRaises ==
    /\ pc = "PRIMARY_ATTEMPT"
    /\ calls' = Append(calls, [m |-> 0, out |-> "raised"])
    /\ hf_i' = 1
    /\ last_err' = 0
    /\ pc' = "ALTERNATES"
    /\ UNCHANGED <<req, raw, hf_outcome, cleaned, used_fallback, response>>
    /\ UNCHANGED harnessVars

\* lines 207-211: model hf_i returns its stripped text; a non-empty text
\* ends _hf_generate, an empty one moves to the next model
HfGenerateOneReturns(content) ==
    /\ pc = "ALTERNATES"
    /\ hf_i <= NumModels
    /\ calls' = Append(calls, [m |-> hf_i, out |-> Outcome(content)])
    /\ IF Strip(content) # <<>>
       THEN /\ raw' = Strip(content)
            /\ hf_outcome' = "text"
            /\ pc' = "CLEANUP"
            /\ UNCHANGED hf_i
       ELSE /\ hf_i' = hf_i + 1
            /\ UNCHANGED <<raw, hf_outcome, pc>>
    /\ UNCHANGED <<req, last_err, cleaned, used_fallback, response>>
    /\ UNCHANGED harnessVars

\* lines 212-214: model hf_i raises; the error is kept and the loop goes on
HfGenerateOneRaises ==
    /\ pc = "ALTERNATES"
    /\ hf_i <= NumModels
    /\ calls' = Append(calls, [m |-> hf_i, out |-> "raised"])
    /\ last_err' = hf_i
    /\ hf_i' = hf_i + 1
    /\ UNCHANGED <<req, raw, hf_outcome, pc, cleaned, used_fallback, response>>
    /\ UNCHANGED harnessVars

\* HfGenerateEnds without the handler of lines 498-500: the error that
\* _hf_generate re-raises reaches the caller
HfGenerateEnds_NoHandler ==
    /\ pc = "ALTERNATES"
    /\ hf_i > NumModels
    /\ hf_outcome' = IF last_err # 0 THEN "raised" ELSE "empty"
    /\ raw' = <<>>
    /\ IF last_err # 0
       THEN pc' = "DONE" /\ response' = [kind |-> "raised", draft |-> <<>>]
       ELSE pc' = "CLEANUP" /\ UNCHANGED response
    /\ UNCHANGED <<req, hf_i, last_err, calls, cleaned, used_fallback>>
    /\ UNCHANGED harnessVars

\* lines 215-217 and 498-500: the loop is over; _hf_generate raises
\* last_err if any model raised, else returns ""; the handler of line 498
\* turns the exception into raw = ""
HfGenerateEnds ==
    /\ pc = "ALTERNATES"
    /\ hf_i > NumModels
    /\ hf_outcome' = IF last_err # 0 THEN "raised" ELSE "empty"
    /\ raw' = <<>>
    /\ pc' = "CLEANUP"
    /\ UNCHANGED <<req, hf_i, last_err, calls, cleaned, used_fallback, response>>
    /\ UNCHANGED harnessVars

\* lines 502-503: what `cleaned` holds when line 505 tests it
CleanedOf(r) == Strip(RemoveUrls(_cleanup(r, req)))

\* CleanupStep with line 505 testing `raw` instead of `cleaned`
CleanupStep_TestsRaw ==
    /\ pc = "CLEANUP"
    /\ cleaned' = CleanedOf(raw)
    /\ IF raw = <<>>
       THEN pc' = "FALLBACK" /\ UNCHANGED response
       ELSE pc' = "DONE" /\ response' = [kind |-> "returned", draft |-> cleaned']
    /\ UNCHANGED <<req, raw, hf_i, last_err, hf_outcome, calls, used_fallback>>
    /\ UNCHANGED harnessVars

\* lines 502-508: clean; a non-empty result is the draft, an empty one
\* leads to the fallback
CleanupStep ==
    /\ pc = "CLEANUP"
    /\ cleaned' = CleanedOf(raw)
    /\ IF cleaned' = <<>>
       THEN pc' = "FALLBACK" /\ UNCHANGED response
       ELSE pc' = "DONE" /\ response' = [kind |-> "returned", draft |-> cleaned']
    /\ UNCHANGED <<req, raw, hf_i, last_err, hf_outcome, calls, used_fallback>>
    /\ UNCHANGED harnessVars

\* lines 506 and 508: the draft is the fallback text
FallbackStep ==
    /\ pc = "FALLBACK"
    /\ used_fallback' = TRUE
    /\ response' = [kind |-> "returned", draft |-> _fallback_from_req(req)]
    /\ pc' = "DONE"
    /\ UNCHANGED <<req, raw, hf_i, last_err, hf_outcome, calls, cleaned>>
    /\ UNCHANGED harnessVars

Next ==
    \/ \E c \in ModelOutputs : CallOpenAIReturns(c)
    \/ CallOpenAIRaises
    \/ \E c \in ModelOutputs : HfGenerateOneReturns(c)
    \/ HfGenerateOneRaises
    \/ HfGenerateEnds
    \/ CleanupStep
    \/ FallbackStep

Spec == Init /\ [][Next]_vars

(***************************************************************************)
(* Function harness: a pure function of the pipeline applied to an input    *)
(* drawn at Init, and applied once more to its own result.                  *)
(***************************************************************************)

\* U+00F0 U+009F U+00A4 U+0094: the thinking-face emoji mis-decoded as Latin-1
InEmoji == <<240, 159, 164, 148>>

\* 'a', U+00C2, U+00A0, 'b': a mis-decoded non-breaking space
InNbsp == <<97, 194, 160, 98>>

\* 'a', CR LF, CR LF, CR LF, 'b'
InCrLf == <<97, 13, 10, 13, 10, 13, 10, 98>>

\* a link whose scheme is written in capitals
InUpperUrl == <<72, 84, 84, 80, 58, 47, 47, 88, 46, 73, 79>>

TextInputs == SmallStrings \cup OutputSamples \cup {InEmoji, InNbsp, InCrLf, InUpperUrl}

TextFns == {"_strip_mojibake", "_cleanup", "_fix_mojibake_roundtrip", "_final_text_clean"}

ApplyText(f, x) ==
    CASE f = "_strip_mojibake"         -> _strip_mojibake(x)
      [] f = "_cleanup"                -> _cleanup(x, NoRequest)
      [] f = "_fix_mojibake_roundtrip" -> _fix_mojibake_roundtrip(x)
      [] OTHER                         -> _final_text_clean(x)

InitText ==
    /\ OrchIdle
    /\ h_fn = "none"
    /\ h_arg \in TextInputs
    /\ h_ret = <<>>

CallText(f) ==
    /\ h_fn = "none"
    /\ h_fn' = f
    /\ h_ret' = <<ApplyText(f, h_arg)>>
    /\ UNCHANGED h_arg
    /\ UNCHANGED orchVars

CallTextAgain ==
    /\ h_fn \in TextFns
    /\ Len(h_ret) = 1
    /\ h_ret' = Append(h_ret, ApplyText(h_fn, h_ret[1]))
    /\ UNCHANGED <<h_fn, h_arg>>
    /\ UNCHANGED orchVars

NextText ==
    \/ \E f \in TextFns : CallText(f)
    \/ CallTextAgain

SpecText == InitText /\ [][NextText]_vars

\* arguments of _enforce_shape: an absent angle or title is the empty string
ShapeArgs ==
    [t : {<<>>, OutPlain, OutShaped, OutEllipsis, OutLong},
     max_words : {1, MaxWordsMin, MaxWordsMax},
     angle : {<<>>, <<99, 97, 114, 101, 101, 114>>, <<108, 101, 97, 100, 101, 114, 115, 104, 105, 112>>, <<122, 122, 122>>},
     topics : {<<>>, <<<<35, 65, 73>>>>},
     source_title : {<<>>, TitleVendor},
     terms : {<<>>, <<<<86, 101, 110, 100, 111, 114>>>>}]

InitShape ==
    /\ OrchIdle
    /\ h_fn = "none"
    /\ h_arg \in ShapeArgs
    /\ h_ret = <<>>

CallEnforceShape ==
    /\ h_fn = "none"
    /\ h_arg \in ShapeArgs
    /\ h_fn' = "_enforce_shape"
    /\ h_ret' = <<_enforce_shape(h_arg.t, h_arg.max_words, h_arg.angle,
                                 h_arg.topics, h_arg.source_title, h_arg.terms)>>
    /\ UNCHANGED h_arg
    /\ UNCHANGED orchVars

NextShape == CallEnforceShape

SpecShape == InitShape /\ [][NextShape]_vars

(***************************************************************************)
(* _choose_tags applied to arguments drawn at Init.                         *)
(***************************************************************************)

\* no keyword of any family: "Ship it today."
BodyNone == <<83, 104, 105, 112, 32, 105, 116, 32, 116, 111, 100, 97, 121, 46>>

\* keywords of two families: "Our AI policy changed."
BodyAiPolicy == <<79, 117, 114, 32, 65, 73, 32, 112, 111, 108, 105, 99, 121, 32, 99,
    104, 97, 110, 103, 101, 100, 46>>

\* 'ai' inside a word only: "We maintain trains."
BodyMaintain == <<87, 101, 32, 109, 97, 105, 110, 116, 97, 105, 110, 32, 116, 114, 97,
    105, 110, 115, 46>>

\* keywords of all four families: "AI, logistics, funding and trade."
BodyAllFamilies == <<65, 73, 44, 32, 108, 111, 103, 105, 115, 116, 105, 99, 115, 44, 32,
    102, 117, 110, 100, 105, 110, 103, 32, 97, 110, 100, 32, 116, 114, 97,
    100, 101, 46>>

\* the empty body: ""
BodyEmpty == <<>>

TagBodies == {BodyNone, BodyAiPolicy, BodyMaintain, BodyAllFamilies, BodyEmpty}

\* detected topics: none, one, a repeat in another case among four, four
\* distinct ones, one without '#'
TagTopics ==
    { <<>>,
      <<<<35, 80, 114, 111, 100, 117, 99, 116>>>>,
      <<<<35, 80, 114, 111, 100, 117, 99, 116>>, <<35, 112, 114, 111, 100, 117, 99, 116>>, <<35, 72, 105, 114, 105, 110, 103>>, <<35, 79, 112, 101, 114, 97, 116, 105, 111, 110, 115>>>>,
      <<<<35, 65, 73>>, <<35, 70, 105, 110, 97, 110, 99, 101>>, <<35, 80, 111, 108, 105, 99, 121>>, <<35, 72, 105, 114, 105, 110, 103>>>>,
      <<<<97, 105>>>> }

\* explicit tags: none, a repeat with spaces around it, a blank one, one
\* without '#', four distinct ones
TagBaseTags ==
    { <<>>,
      <<<<35, 76, 101, 97, 100>>, <<32, 35, 108, 101, 97, 100, 32>>>>,
      <<<<32>>>>,
      <<<<65, 73>>>>,
      <<<<35, 65>>, <<35, 66>>, <<35, 67>>, <<35, 68>>>> }

\* angle keys: none, two of the table, one the table lacks
TagAngles ==
    { <<>>, <<99, 97, 114, 101, 101, 114>>, <<111, 112, 115>>, <<122, 122, 122>> }

TagArgs ==
    [body : TagBodies, topics : TagTopics, angle_key : TagAngles,
     base_tags : TagBaseTags, add_privacy : BOOLEAN]

InitTags ==
    /\ OrchIdle
    /\ h_fn = "none"
    /\ h_arg \in TagArgs
    /\ h_ret = <<>>

CallChooseTags ==
    /\ h_fn = "none"
    /\ h_arg \in TagArgs
    /\ h_fn' = "_choose_tags"
    /\ h_ret' = <<_choose_tags(h_arg.body, h_arg.topics, h_arg.angle_key,
                               h_arg.base_tags, h_arg.add_privacy)>>
    /\ UNCHANGED h_arg
    /\ UNCHANGED orchVars

NextTags == CallChooseTags

SpecTags == InitTags /\ [][NextTags]_vars

(***************************************************************************)
(* The fallback generator called after generation calls that produced       *)
(* nothing: each call is kept with its request and with how the generation  *)
(* calls before it had ended.                                               *)
(***************************************************************************)

\* number of fallback calls in a run
MaxFallbackCalls == 2

\* a text that starts with the title in another case: "vendor news: prices rise. More follows."
TextPrefixed ==
    <<118, 101, 110, 100, 111, 114, 32, 110, 101, 119, 115, 58, 32, 112,
      114, 105, 99, 101, 115, 32, 114, 105, 115, 101, 46, 32, 77, 111, 114,
      101, 32, 102, 111, 108, 108, 111, 119, 115, 46>>

\* a text with no sentence left once the link is gone: "https://x.io/a"
TextUrlOnly ==
    <<104, 116, 116, 112, 115, 58, 47, 47, 120, 46, 105, 111, 47, 97>>

FallbackRequests ==
    [text : {TextVendor, <<32>>, TextPrefixed, TextUrlOnly},
     source_title : {<<>>, TitleVendor},
     max_words : {MaxWordsMin}]

\* how the generation calls ended before line 506 (an empty result) or
\* line 512 (an exception) calls the fallback
FallbackCauses == {"empty", "raised"}

InitFallback ==
    /\ OrchIdle
    /\ h_fn = "_fallback_from_req"
    /\ h_arg = <<>>
    /\ h_ret = <<>>

\* CallFallback with a draft that depends on the number of earlier calls,
\* as a helper seeded from global state would make it
CallFallback_Seeded(r, cause) ==
    /\ h_fn = "_fallback_from_req"
    /\ Len(h_ret) < MaxFallbackCalls
    /\ h_ret' = Append(h_ret, [text |-> r.text, source_title |-> r.source_title,
                               cause |-> cause,
                               draft |-> IF Len(h_ret) % 2 = 0
                                         THEN _fallback_from_req(r)
                                         ELSE Headline(r)])
    /\ UNCHANGED <<h_fn, h_arg>>
    /\ UNCHANGED orchVars

\* lines 506 and 512: _fallback_from_req(req); it reads its argument r and
\* nothing else (lines 462-479)
CallFallback(r, cause) ==
    /\ h_fn = "_fallback_from_req"
    /\ Len(h_ret) < MaxFallbackCalls
    /\ h_ret' = Append(h_ret, [text |-> r.text, source_title |-> r.source_title,
                               cause |-> cause,
                               draft |-> _fallback_from_req(r)])
    /\ UNCHANGED <<h_fn, h_arg>>
    /\ UNCHANGED orchVars

NextFallback ==
    \E r \in FallbackRequests : \E cause \in FallbackCauses : CallFallback(r, cause)

SpecFallback == InitFallback /\ [][NextFallback]_vars

(***************************************************************************)
(* rewrite_linkedin applied to a text, with or without a configured client; *)
(* the model call returns a content or raises.                              *)
(***************************************************************************)

\* 'a', four line feeds, 'b'
InManyBlank == <<97, 10, 10, 10, 10, 98>>

RewriteTexts ==
    { <<>>, <<32, 10>>, <<97>>, TextVendor, TextUrlOnly, OutPlain, OutWithUrl,
      OutEntity, OutUrlParagraph, InManyBlank }

RewriteArgs == [text : RewriteTexts, client : BOOLEAN]

InitRewrite ==
    /\ OrchIdle
    /\ h_fn = "none"
    /\ h_arg \in RewriteArgs
    /\ h_ret = <<>>

\* lines 41-43: nothing but whitespace
RewriteBlank ==
    /\ h_fn = "none" /\ h_arg \in RewriteArgs
    /\ RewriteBase(h_arg.text) = <<>>
    /\ h_fn' = "rewrite_linkedin"
    /\ h_ret' = <<[how |-> "blank", content |-> <<>>, out |-> Returned(<<>>)]>>
    /\ UNCHANGED h_arg
    /\ UNCHANGED orchVars

\* lines 46-47: no client
RewriteNoClient ==
    /\ h_fn = "none" /\ h_arg \in RewriteArgs
    /\ RewriteBase(h_arg.text) # <<>>
    /\ ~h_arg.client
    /\ h_fn' = "rewrite_linkedin"
    /\ h_ret' = <<[how |-> "no_client", content |-> <<>>,
                   out |-> Returned(_light_cleanup(RewriteBase(h_arg.text)))]>>
    /\ UNCHANGED h_arg
    /\ UNCHANGED orchVars

\* lines 59-65 and 68-70: the model call raises and the handler returns the
\* cleaned text
RewriteModelRaises ==
    /\ h_fn = "none" /\ h_arg \in RewriteArgs
    /\ RewriteBase(h_arg.text) # <<>>
    /\ h_arg.client
    /\ h_fn' = "rewrite_linkedin"
    /\ h_ret' = <<[how |-> "raised", content |-> <<>>,
                   out |-> Returned(_light_cleanup(RewriteBase(h_arg.text)))]>>
    /\ UNCHANGED h_arg
    /\ UNCHANGED orchVars

\* RewriteModelReturns without the `or _light_cleanup(base)` of line 67
RewriteModelReturns_NoFallback(content) ==
    /\ h_fn = "none" /\ h_arg \in RewriteArgs
    /\ RewriteBase(h_arg.text) # <<>>
    /\ h_arg.client
    /\ h_fn' = "rewrite_linkedin"
    /\ h_ret' = <<[how |-> "returned", content |-> content,
                   out |-> Returned(_light_cleanup(Strip(content)))]>>
    /\ UNCHANGED h_arg
    /\ UNCHANGED orchVars

\* lines 59-67: the model call returns a message content
RewriteModelReturns(content) ==
    /\ h_fn = "none" /\ h_arg \in RewriteArgs
    /\ RewriteBase(h_arg.text) # <<>>
    /\ h_arg.client
    /\ h_fn' = "rewrite_linkedin"
    /\ h_ret' = <<[how |-> "returned", content |-> content,
                   out |-> Returned(RewriteResult(content, RewriteBase(h_arg.text)))]>>
    /\ UNCHANGED h_arg
    /\ UNCHANGED orchVars

NextRewrite ==
    \/ RewriteBlank
    \/ RewriteNoClient
    \/ RewriteModelRaises
    \/ \E content \in ModelOutputs : RewriteModelReturns(content)

SpecRewrite == InitRewrite /\ [][NextRewrite]_vars

(***************************************************************************)
(* linkedin_publish.py: _get_fresh_access_token (164-187).                  *)
(*                                                                         *)
(* crud_tokens, token_crypto and linkedin_api are used through their calls  *)
(* only: the token store is a record (an empty field for an absent row),    *)
(* is_token_expiring answers the store's flag, encryption is an invertible  *)
(* tagging, and the refresh exchange either fails somewhere or stores a     *)
(* new access token.                                                        *)
(***************************************************************************)

\* number of distinct access tokens
MaxToken == 4

\* "t1", "t2", ...
PlainTokens == {<<116, 48 + k>> : k \in 1..MaxToken}

\* token_crypto: a ciphertext is the plain text behind a '#'
encrypt_token(plain) == <<35>> \o plain

decrypt_token(enc) == Tail(enc)

\* "r1", "r2"
RefreshTokens == {<<114, 49>>, <<114, 50>>}

\* what crud_tokens holds for the user: no access token at all, or one
\* with its expiring flag; no refresh token, or one
TokenStores ==
    [access_token_encrypted : {<<>>} \cup {encrypt_token(p) : p \in PlainTokens},
     expiring : BOOLEAN,
     refresh_token_enc : {<<>>} \cup {encrypt_token(r) : r \in RefreshTokens}]

\* where the refresh of lines 173-183 can fail: dec, the exchange, a
\* response without access_token, the update
RefreshFailures == {"decrypt", "exchange", "no_access_token", "update"}

HTTP400 == Raised("HTTPException 400")

HTTP401 == Raised("HTTPException 401")

InitToken ==
    /\ OrchIdle
    /\ h_fn = "none"
    /\ h_arg \in TokenStores
    /\ h_ret = <<>>

\* lines 165-167: no token on file
TokenMissing ==
    /\ h_fn = "none" /\ h_arg \in TokenStores
    /\ h_arg.access_token_encrypted = <<>>
    /\ h_fn' = "_get_fresh_access_token"
    /\ h_ret' = <<[how |-> "missing", store |-> h_arg, out |-> HTTP400]>>
    /\ UNCHANGED h_arg
    /\ UNCHANGED orchVars

\* lines 170 and 187: the token is not expiring
TokenValid ==
    /\ h_fn = "none" /\ h_arg \in TokenStores
    /\ h_arg.access_token_encrypted # <<>>
    /\ ~h_arg.expiring
    /\ h_fn' = "_get_fresh_access_token"
    /\ h_ret' = <<[how |-> "valid", store |-> h_arg,
                   out |-> Returned(decrypt_token(h_arg.access_token_encrypted))]>>
    /\ UNCHANGED h_arg
    /\ UNCHANGED orchVars

\* lines 170-172 and 187: expiring, and no refresh token on file: the `if`
\* of line 172 has no else, and line 187 decrypts the token read on line 165
TokenNoRefresh ==
    /\ h_fn = "none" /\ h_arg \in TokenStores
    /\ h_arg.access_token_encrypted # <<>>
    /\ h_arg.expiring
    /\ h_arg.refresh_token_enc = <<>>
    /\ h_fn' = "_get_fresh_access_token"
    /\ h_ret' = <<[how |-> "no_refresh_token", store |-> h_arg,
                   out |-> Returned(decrypt_token(h_arg.access_token_encrypted))]>>
    /\ UNCHANGED h_arg
    /\ UNCHANGED orchVars

\* lines 173-185: the refresh fails and the handler raises 401
TokenRefreshFails(failure) ==
    /\ h_fn = "none" /\ h_arg \in TokenStores
    /\ h_arg.access_token_encrypted # <<>>
    /\ h_arg.expiring
    /\ h_arg.refresh_token_enc # <<>>
    /\ h_fn' = "_get_fresh_access_token"
    /\ h_ret' = <<[how |-> failure, store |-> h_arg, out |-> HTTP401]>>
    /\ UNCHANGED h_arg
    /\ UNCHANGED orchVars

\* lines 173-181 and 187: the exchange answers a new access token, which is
\* stored, read back and returned
TokenRefreshed(access_token_new) ==
    /\ h_fn = "none" /\ h_arg \in TokenStores
    /\ h_arg.access_token_encrypted # <<>>
    /\ h_arg.expiring
    /\ h_arg.refresh_token_enc # <<>>
    /\ h_fn' = "_get_fresh_access_token"
    /\ LET stored == [h_arg EXCEPT !.access_token_encrypted = encrypt_token(access_token_new),
                                   !.expiring = FALSE]
       IN  h_ret' = <<[how |-> "refreshed", store |-> stored,
                       out |-> Returned(decrypt_token(stored.access_token_encrypted))]>>
    /\ UNCHANGED h_arg
    /\ UNCHANGED orchVars

NextToken ==
    \/ TokenMissing
    \/ TokenValid
    \/ TokenNoRefresh
    \/ \E failure \in RefreshFailures : TokenRefreshFails(failure)
    \/ \E access_token_new \in PlainTokens : TokenRefreshed(access_token_new)

SpecToken == InitToken /\ [][NextToken]_vars

(***************************************************************************)
(* Properties.                                                              *)
(***************************************************************************)

\* the ShapedPost invariants of the data model: within the word budget, a
\* question mark, a "Bottom line" statement, and a last line of one to
\* three distinct hashtags set off by a blank line
HashtagLine(line) ==
    LET tags == Words(line)
    IN  /\ Len(tags) >= 1 /\ Len(tags) <= 3
        /\ \A i \in 1..Len(tags) : Len(tags[i]) >= 2 /\ tags[i][1] = 35
        /\ \A i, j \in 1..Len(tags) : i # j => Lower(tags[i]) # Lower(tags[j])

EndsWithHashtags(d) ==
    LET breaks == {i \in 1..Len(d) : MatchAt(d, i, <<10, 10>>)}
    IN  /\ breaks # {}
        /\ 10 \notin {d[i] : i \in (LastOf(breaks) + 2)..Len(d)}
        /\ HashtagLine(Drop(d, LastOf(breaks) + 1))

ShapedPost(d, max_words) ==
    /\ WordCount(d) <= max_words
    /\ Contains(d, <<63>>)
    /\ Contains(d, <<66, 111, 116, 116, 111, 109, 32, 108, 105, 110, 101>>)
    /\ EndsWithHashtags(d)

\* a substring scheme://x: a letter, "://", and a non-whitespace character
HasRawUrl(s) ==
    \E i \in 1..Len(s) :
        /\ IsAsciiLetter(s[i])
        /\ MatchAt(s, i + 1, <<58, 47, 47>>)
        /\ i + 4 <= Len(s)
        /\ ~IsSpace(s[i + 4])

\* C1: generate_thoughtpost always ends by returning a non-empty draft,
\* whatever the primary call and each alternate provider do (return text,
\* return nothing, raise); it never raises to its caller, and until it has
\* returned it is at a step that can run, having made at most one call to
\* each provider.
C1_Totality ==
    /\ response.kind # "raised"
    /\ pc = "DONE" => response.kind = "returned" /\ response.draft # <<>>
    /\ pc \in {"PRIMARY_ATTEMPT", "ALTERNATES", "CLEANUP", "FALLBACK", "DONE"}
    /\ pc = "ALTERNATES" => hf_i \in 1..(NumModels + 1)
    /\ Len(calls) <= NumModels + 1

\* every provider raised, and a non-empty draft was returned all the same
C1_Witness ==
    /\ pc = "DONE"
    /\ Len(calls) = NumModels + 1
    /\ hf_outcome = "raised"
    /\ last_err = NumModels
    /\ response.kind = "returned"
    /\ response.draft # <<>>

\* C2: every returned draft, from the model or from the fallback, satisfies
\* the ShapedPost invariants.
C2_DraftIsShaped ==
    pc = "DONE" => ShapedPost(response.draft, req.max_words)

\* C3, the final state: the fallback produced the draft exactly when the
\* cleaned generation result is empty, and a non-empty cleaned result is
\* the draft itself.
C3_Branch ==
    /\ pc \in {"FALLBACK", "DONE"} => cleaned = CleanedOf(raw)
    /\ pc = "FALLBACK" => cleaned = <<>>
    /\ pc = "DONE" =>
        /\ response.kind = "returned"
        /\ used_fallback <=> (cleaned = <<>>)
        /\ cleaned # <<>> => response.draft = cleaned
        /\ cleaned = <<>> => response.draft = _fallback_from_req(req)

\* C3, the steps: PRIMARY_ATTEMPT (with its alternates), then CLEANUP, then
\* FALLBACK or DONE
C3_Order ==
    pc' # pc =>
        <<pc, pc'>> \in { <<"PRIMARY_ATTEMPT", "CLEANUP">>,
                          <<"PRIMARY_ATTEMPT", "ALTERNATES">>,
                          <<"ALTERNATES", "CLEANUP">>,
                          <<"CLEANUP", "FALLBACK">>,
                          <<"CLEANUP", "DONE">>,
                          <<"FALLBACK", "DONE">> }

\* C3: the orchestrator follows PRIMARY_ATTEMPT -> CLEANUP -> (FALLBACK or
\* DONE); the fallback text is returned if and only if the cleaned result
\* is empty, and otherwise the draft is exactly the cleaned text.
C3_StateMachine == [](C3_Branch) /\ [][C3_Order]_vars

\* both ends of the branch were taken: a model output that cleans to
\* nothing went to the fallback
C3_Witness ==
    /\ pc = "DONE"
    /\ raw # <<>>
    /\ cleaned = <<>>
    /\ used_fallback
    /\ response.draft = _fallback_from_req(req)

\* C4: _cleanup and _strip_mojibake are idempotent: applied to their own
\* result they return it unchanged.
C4_Idempotent ==
    (h_fn \in {"_cleanup", "_strip_mojibake"} /\ Len(h_ret) = 2) => h_ret[2] = h_ret[1]

\* C5: the text _cleanup returns holds no scheme://... link.
C5_NoRawUrl ==
    (h_fn = "_cleanup" /\ Len(h_ret) >= 1) => ~HasRawUrl(h_ret[1])

\* none of the corruption markers of either detector
NoCorruptionMarkers(x) ==
    /\ ~DetectsMojibake(x)
    /\ ~_looks_like_mojibake(x)
    /\ ~Contains(x, <<194, 160>>)

\* C6: _fix_mojibake_roundtrip returns a string with no corruption marker
\* unchanged.
C6_RepairNoOp ==
    (h_fn = "_fix_mojibake_roundtrip" /\ Len(h_ret) >= 1 /\ NoCorruptionMarkers(h_arg))
        => h_ret[1] = h_arg

\* U+00E2 U+20AC U+2122, how a right single quote reads once mis-decoded
MojibakeQuote == <<226, 8364, 8482>>

\* C7: a text holding the sequence U+00E2 U+20AC U+2122 comes out of the
\* repair with U+2019 in its place and the rest as if the quote had been
\* there from the start.
C7_RepairsQuote ==
    (h_fn \in {"_strip_mojibake", "_final_text_clean"} /\ Len(h_ret) >= 1
        /\ Contains(h_arg, MojibakeQuote))
        => /\ Contains(h_ret[1], <<8217>>)
           /\ h_ret[1] = ApplyText(h_fn, Replace(h_arg, MojibakeQuote, <<8217>>))

\* C8: a model output spelling its tags "hashtag#AI hashtag#Policy" is
\* returned with the tags as "#AI #Policy" and no "hashtag#" left.
C8_HashtagMarker ==
    (pc = "DONE" /\ ~used_fallback /\ Contains(raw, <<104, 97, 115, 104, 116, 97, 103, 35, 65, 73, 32, 104, 97, 115, 104, 116, 97, 103, 35, 80, 111, 108, 105, 99, 121>>))
        => /\ Contains(response.draft, <<35, 65, 73, 32, 35, 80, 111, 108, 105, 99, 121>>)
           /\ ~Contains(Lower(response.draft), <<104, 97, 115, 104, 116, 97, 103, 35>>)

\* C9: _enforce_shape returns a string and raises nothing, whatever its
\* arguments.
C9_ShapeNeverFails ==
    h_fn = "_enforce_shape" => ~h_ret[1].raised

\* C10: for max_words >= 1 the string _enforce_shape returns has at most
\* max_words words.
C10_WordBudget ==
    (h_fn = "_enforce_shape" /\ h_arg.max_words >= 1)
        => /\ h_ret[1].raised = FALSE
           /\ WordCount(h_ret[1].value) <= h_arg.max_words

\* the text after the last line feed
LastLine(d) ==
    LET feeds == {i \in 1..Len(d) : d[i] = 10}
    IN  IF feeds = {} THEN d ELSE Drop(d, LastOf(feeds))

\* C11: whatever its arguments, _enforce_shape returns a string that holds
\* a '?', holds "Bottom line", and has a last line of one to three hashtags.
C11_ShapeComplete ==
    h_fn = "_enforce_shape" =>
        /\ h_ret[1].raised = FALSE
        /\ Contains(h_ret[1].value, <<63>>)
        /\ Contains(h_ret[1].value, <<66, 111, 116, 116, 111, 109, 32, 108, 105, 110, 101>>)
        /\ HashtagLine(LastLine(h_ret[1].value))

\* every tag of out occurs in src, and the tags of out stand in the order
\* of their first occurrences in src
FirstSeenOrder(out, src) ==
    /\ \A i \in 1..Len(out) : \E k \in 1..Len(src) : src[k] = out[i]
    /\ \A i, j \in 1..Len(out) :
        i < j => FirstOf({k \in 1..Len(src) : src[k] = out[i]})
                    < FirstOf({k \in 1..Len(src) : src[k] = out[j]})

\* C12: _choose_tags returns one to three tags, no two equal when compared
\* without regard to case, in first-seen order of the list they come from,
\* each a non-empty string that starts with '#'.
C12_TagBound ==
    h_fn = "_choose_tags" =>
        LET out == h_ret[1]
        IN  /\ Len(out) >= 1 /\ Len(out) <= 3
            /\ \A i, j \in 1..Len(out) : i # j => Lower(out[i]) # Lower(out[j])
            /\ \A i \in 1..Len(out) : out[i] # <<>> /\ out[i][1] = 35
            /\ \E src \in { [i \in 1..Len(h_arg.base_tags) |-> Strip(h_arg.base_tags[i])],
                            KeywordTags(h_arg.body, h_arg.add_privacy),
                            h_arg.topics,
                            AngleDefault(h_arg.angle_key) } :
                    FirstSeenOrder(out, src)

\* the first non-empty list of a sequence of lists, <<>> if all are empty
FirstNonEmpty(lists) ==
    IF \E i \in 1..Len(lists) : lists[i] # <<>>
    THEN lists[FirstOf({i \in 1..Len(lists) : lists[i] # <<>>})]
    ELSE <<>>

\* C13: _choose_tags takes its tags from the first source that yields any,
\* in the order explicit tags, keyword families with the privacy tag,
\* detected topics, angle default; so a body that matches a keyword family
\* gets the keyword tags even when topics were detected.
C13_Priority ==
    h_fn = "_choose_tags" =>
        h_ret[1] = FirstN(KeepFirstSeen(FirstNonEmpty(
                        << ExplicitTags(h_arg.base_tags),
                           KeywordTags(h_arg.body, h_arg.add_privacy),
                           FirstN(h_arg.topics, 3),
                           AngleDefault(h_arg.angle_key) >>)), 3)

\* the headline as the data model words it
ExpectedHeadline(title, sentence) ==
    IF title # <<>> /\ sentence # <<>> /\ ~StartsWith(Lower(sentence), Lower(title))
    THEN title \o <<58, 32>> \o sentence
    ELSE IF sentence # <<>> THEN sentence
    ELSE IF title # <<>> THEN title
    ELSE QuickUpdate

\* headline, blank line, three bullet lines, blank line, closing question
FallbackLayout(draft, headline) ==
    LET lines == SplitOn(draft, 10)
    IN  /\ Len(lines) = 7
        /\ lines[1] = headline
        /\ lines[2] = <<>> /\ lines[6] = <<>>
        /\ lines[3] = BulletWhatChanged /\ lines[4] = BulletImpact /\ lines[5] = BulletNextStep
        /\ \A i \in 3..5 : lines[i][1] = 8226
        /\ lines[7] = ClosingQuestion
        /\ Contains(lines[7], <<63>>) /\ lines[7][Len(lines[7])] = 129300

\* "Vendor News: A vendor changes partners."
HeadlineVendor == TitleVendor \o <<58, 32>> \o TextVendor

\* C14: the fallback draft is a headline, a blank line, the three fixed
\* bullet lines, a blank line and the fixed closing question ending in
\* U+1F914; the headline is "title: first sentence" when both are non-empty
\* and the title is no case-insensitive prefix of the sentence, else the
\* sentence, else the title, else "Quick update".
C14_FallbackFormat ==
    \A i \in 1..Len(h_ret) :
        h_fn = "_fallback_from_req" =>
            /\ FallbackLayout(h_ret[i].draft,
                    ExpectedHeadline(Strip(h_ret[i].source_title),
                        _first_sentence(Strip(h_ret[i].text), FirstSentenceLimit)))
            /\ (h_ret[i].text = TextVendor /\ h_ret[i].source_title = TitleVendor)
                    => SplitOn(h_ret[i].draft, 10)[1] = HeadlineVendor

\* the example of the claim, and a title that is a prefix of the sentence
C14_Witness ==
    /\ h_fn = "_fallback_from_req"
    /\ Len(h_ret) = 2
    /\ h_ret[1].text = TextVendor /\ h_ret[1].source_title = TitleVendor
    /\ SplitOn(h_ret[1].draft, 10)[1] = HeadlineVendor
    /\ h_ret[2].text = TextPrefixed /\ h_ret[2].source_title = TitleVendor
    /\ SplitOn(h_ret[2].draft, 10)[1] = Take(TextPrefixed, 25)

C16_RewriteNeverRaises ==
    h_fn = "rewrite_linkedin" =>
        LET r     == h_ret[1]
            base  == Strip(h_arg.text)
            model == _light_cleanup(Strip(r.content))
        IN  /\ r.out.raised = FALSE
            /\ base = <<>> => r.out.value = <<>>
            /\ (base # <<>> /\ (~h_arg.client \/ r.how = "raised" \/ model = <<>>))
                    => r.out.value = _light_cleanup(base)
            /\ (base # <<>> /\ h_arg.client /\ r.how = "returned" /\ model # <<>>)
                    => r.out.value = model

\* the model answered with a link only, and the cleaned text came back
C16_Witness ==
    /\ h_fn = "rewrite_linkedin"
    /\ h_arg.client
    /\ h_ret[1].how = "returned"
    /\ h_ret[1].content = OutUrlOnly
    /\ h_arg.text = OutEntity
    /\ h_ret[1].out = Returned(<<82, 38, 97, 109, 112, 59, 68>>)

\* the calls _hf_generate made: all but the first entry of calls
AlternateCalls == SubSeq(calls, 2, Len(calls))

\* C17: _hf_generate tries the models in list order, stops at the first
\* non-empty output, and raises the last error only if every model raised:
\* when some model returned empty text and none returned text, it returns
\* "" instead.
C17_HfOrder ==
    /\ \A k \in 1..Len(AlternateCalls) : AlternateCalls[k].m = k
    /\ \A k \in 1..(Len(AlternateCalls) - 1) : AlternateCalls[k].out # "text"
    /\ hf_outcome = "text" => AlternateCalls[Len(AlternateCalls)].out = "text"
    /\ hf_outcome = "raised" =>
            \A k \in 1..Len(AlternateCalls) : AlternateCalls[k].out = "raised"
    /\ (hf_outcome \in {"empty", "raised"}
            /\ \E k \in 1..Len(AlternateCalls) : AlternateCalls[k].out = "empty")
        => hf_outcome = "empty"

\* C19: an alternate provider is called only after the OpenAI call raised;
\* when the OpenAI call returned, even "", it is the only call made, and an
\* empty answer ends in the fallback draft.
C19_AlternatesOnlyAfterRaise ==
    /\ Len(calls) >= 1 => calls[1].m = 0
    /\ Len(calls) >= 2 => calls[1].out = "raised"
    /\ (Len(calls) >= 1 /\ calls[1].out # "raised") =>
            /\ Len(calls) = 1
            /\ pc \in {"CLEANUP", "FALLBACK", "DONE"}
            /\ hf_outcome = "none"
    /\ (pc = "DONE" /\ calls[1].out = "empty") =>
            /\ used_fallback
            /\ response = [kind |-> "returned", draft |-> _fallback_from_req(req)]

\* the OpenAI call returned whitespace: one call, then the fallback draft
C19_Witness ==
    /\ pc = "DONE"
    /\ Len(calls) = 1
    /\ calls[1] = [m |-> 0, out |-> "empty"]
    /\ used_fallback
    /\ response.draft = _fallback_from_req(req)

\* C18: the text that CLEANUP leaves (lines 502-503) has no two blank
\* lines in a row and no line that ends in whitespace.
C18_BlankLines ==
    pc \in {"FALLBACK", "DONE"} =>
        LET lines == SplitOn(cleaned, 10)
        IN  /\ \A i \in 1..(Len(lines) - 1) :
                    ~(Strip(lines[i]) = <<>> /\ Strip(lines[i + 1]) = <<>>)
            /\ \A i \in 1..Len(lines) : RStrip(lines[i]) = lines[i]

\* C20: with no stored token _get_fresh_access_token raises HTTP 400; when
\* the stored token is expiring it returns the access token that a
\* successful refresh stored, or raises HTTP 401, and never the expiring
\* token, a missing refresh token included.
C20_FreshToken ==
    h_fn = "_get_fresh_access_token" =>
        LET r == h_ret[1]
        IN  /\ h_arg.access_token_encrypted = <<>> => r.out = HTTP400
            /\ (h_arg.access_token_encrypted # <<>> /\ h_arg.expiring) =>
                    \/ r.out = HTTP401
                    \/ /\ r.how = "refreshed"
                       /\ ~r.store.expiring
                       /\ r.out = Returned(decrypt_token(r.store.access_token_encrypted))
            /\ (h_arg.access_token_encrypted # <<>> /\ ~h_arg.expiring) =>
                    r.out = Returned(decrypt_token(h_arg.access_token_encrypted))

=============================================================================
